---- MODULE Spec2Model ----
(***************************************************************************)
(* strict_soup: StrictTag / StrictSoup, the strict selection and attribute *)
(* wrappers over bs4 (src/src/strict_soup/__init__.py).                    *)
(*                                                                         *)
(* The state is the heap of parsed page elements of two documents built    *)
(* from the same markup, one parsed with StrictSoup and one with the plain *)
(* BeautifulSoup, the set of elements the caller holds a reference to, and *)
(* the record of the last call with its outcome.                           *)
(*                                                                         *)
(* mixin is the same for the earlier variant of the wrapper                *)
(* (src/strict_soup/__init__.py, StrictMixin), which wraps every match in  *)
(* a new StrictTag object that copies the match's attributes: its heap,    *)
(* the objects its caller holds and its last call.  SpecVariants runs the  *)
(* two variants side by side on the same calls.                            *)
(***************************************************************************)
EXTENDS Integers, Sequences, FiniteSets, TLC

VARIABLES heap, handles, last, calls, mixin

vars == <<heap, handles, last, calls, mixin>>

(* ------------------------------ bounds -------------------------------- *)

\* Largest limit argument passed to select / strict_select / strict_select_one.
MaxLimit == 2

\* Longest argument list passed to insert_after / insert_before.
MaxArgs == 1

\* Longest chain of calls the caller makes.
MaxCalls == 2

(* --------------------------- parsed markup ---------------------------- *)

Str(s) == [t |-> "str", v |-> s]

\* A multi-valued attribute (class): bs4 keeps it as a list, not a str.
List(s) == [t |-> "list", v |-> s]

Attr(k, val) == [key |-> k, val |-> val]

Elem(name, up, attrs) == [name |-> name, up |-> up, attrs |-> attrs]

Text(up) == [name |-> "", up |-> up, attrs |-> {}]

\* The document of the tests, in document order; up is the index of the
\* parent, entry 1 is the document object itself.
\*   <h1 value="123"><text>H1 Test</text></h1>
\*   <h2><text>H2 Test 1</text></h2><h2>H2 Text 2</h2>
TestMarkup ==
    << Elem("[document]", 0, {}),
       Elem("h1", 1, {Attr("value", Str("123"))}),
       Elem("text", 2, {}),
       Text(3),
       Text(1),
       Elem("h2", 1, {}),
       Elem("text", 6, {}),
       Text(7),
       Elem("h2", 1, {}),
       Text(9) >>

\* A second document with nesting, three h2, an empty-string attribute and
\* a multi-valued attribute.
\*   <h1 value="" class="a b"><h2 id="x"><text>T</text></h2></h1>
\*   <h2 class="a"><h2><text></text></h2></h2>
NestedMarkup ==
    << Elem("[document]", 0, {}),
       Elem("h1", 1, {Attr("value", Str("")), Attr("class", List("a b"))}),
       Elem("h2", 2, {Attr("id", Str("x"))}),
       Elem("text", 3, {}),
       Text(4),
       Elem("h2", 1, {Attr("class", List("a"))}),
       Elem("h2", 6, {}),
       Elem("text", 7, {}) >>

Markups == {TestMarkup, NestedMarkup}

Selectors == {"h1", "h2", "h3", "text"}

\* Selectors that name the receiver itself: its children with a given name.
ScopedSelectors == {":scope > text", ":scope > h2"}

Keys == {"value", "class", "missing_value"}

\* limit: None (<<>>) or an int (<<k>>).
Limits == {<<>>} \cup {<<k>> : k \in 0..MaxLimit}

(* ------------------------------ classes ------------------------------- *)

StrictOps == {"strict_select", "strict_select_one", "strict_get"}

NativeOps == {"select", "select_one", "get", "insert_after", "insert_before"}

\* The attributes a class defines or inherits that are callable.
Methods(cls) ==
    CASE cls = "StrictTag"     -> NativeOps \cup StrictOps
      [] cls = "StrictSoup"    -> NativeOps \cup StrictOps
      [] cls = "Tag"           -> NativeOps
      [] cls = "BeautifulSoup" -> NativeOps
      [] OTHER                 -> {}

IsStrict(cls) == cls \in {"StrictTag", "StrictSoup"}

IsTag(h, n) == h[n].cls # "NavigableString"

(* ------------------------------ parsing ------------------------------- *)

\* The elements of markup m parsed with document class docCls, placed in the
\* heap at base+1 .. base+Len(m).
Parse(m, docCls, base) ==
    [n \in (base + 1)..(base + Len(m)) |->
        LET i == n - base
            e == m[i]
            kids == SelectSeq([j \in 1..Len(m) |-> j], LAMBDA j : m[j].up = i)
        IN [cls      |-> IF i = 1 THEN docCls
                         ELSE IF e.name = "" THEN "NavigableString" ELSE "Tag",
            name     |-> e.name,
            attrs    |-> e.attrs,
            contents |-> [k \in 1..Len(kids) |-> base + kids[k]],
            parent   |-> IF e.up = 0 THEN <<>> ELSE <<base + e.up>>,
            doc      |-> base + 1]]

(* ------------------------------ outcomes ------------------------------ *)

NoMsg == [fmt |-> "", count |-> <<>>, arg |-> ""]

\* A call that returns: shape is the Python type of the value, nodes the
\* elements of a ResultSet (or the single Tag), text a str.
Return(shape, nodes, text) ==
    [kind |-> "return", err |-> "", msg |-> NoMsg,
     shape |-> shape, nodes |-> nodes, text |-> text]

\* A call that raises: no value.
Raise(err, msg) ==
    [kind |-> "raise", err |-> err, msg |-> msg,
     shape |-> "", nodes |-> <<>>, text |-> ""]

\* What an operation leaves behind: the heap after it and its outcome.
Result(h, out) == [heap |-> h, out |-> out]

(* ------------------------- the wrapped engine ------------------------- *)

RECURSIVE Descendants(_, _)
RECURSIVE DescendantsOfAll(_, _)

\* The page elements below n, in document order.
Descendants(h, n) == DescendantsOfAll(h, h[n].contents)

DescendantsOfAll(h, kids) ==
    IF kids = <<>> THEN <<>>
    ELSE <<Head(kids)>> \o Descendants(h, Head(kids))
                        \o DescendantsOfAll(h, Tail(kids))

\* The object :scope stands for when the engine selects under self: self,
\* or the first element of the document when self is the document object.
Scope(h, self) ==
    IF h[self].parent # <<>> THEN self
    ELSE LET tags == SelectSeq(h[self].contents, LAMBDA k : IsTag(h, k))
         IN IF tags = <<>> THEN self ELSE tags[1]

ChildName(selector) ==
    CASE selector = ":scope > text" -> "text"
      [] selector = ":scope > h2"   -> "h2"

\* Whether element n matches the selector in a selection made under self: a
\* type selector, "*", or ":scope > name", where the engine tests that the
\* parent of n is the very object :scope stands for.
Matches(h, self, n, selector) ==
    /\ IsTag(h, n)
    /\ IF selector \in ScopedSelectors
       THEN h[n].name = ChildName(selector) /\ h[n].parent = <<Scope(h, self)>>
       ELSE selector = "*" \/ h[n].name = selector

\* Every match of the selector below n, in document order.
AllMatches(h, n, selector) ==
    SelectSeq(Descendants(h, n), LAMBDA d : Matches(h, n, d, selector))

Min(a, b) == IF a < b THEN a ELSE b

\* Tag.select of the engine: limit None or below 1 means no limit.
Tag_select(h, n, selector, limit) ==
    LET found == AllMatches(h, n, selector)
        lim   == IF limit = <<>> THEN 0 ELSE limit[1]
    IN IF lim < 1 THEN found ELSE SubSeq(found, 1, Min(lim, Len(found)))

\* Tag.select_one of the engine: the first match, or None (<<>>).
Tag_select_one(h, n, selector) ==
    LET found == AllMatches(h, n, selector)
    IN IF found = <<>> THEN <<>> ELSE <<found[1]>>

\* Tag.get of the engine: the attribute's value, or None.
Tag_get(h, n, key) ==
    IF \E a \in h[n].attrs : a.key = key
    THEN (CHOOSE a \in h[n].attrs : a.key = key).val
    ELSE [t |-> "None", v |-> ""]

(* --------------------------- the wrappers ----------------------------- *)

Msg(fmt, count, arg) == [fmt |-> fmt, count |-> count, arg |-> arg]

\* Variant: rebuilds the tag by name, losing its attributes.
convert_dropping_attrs(h, tag) ==
    IF tag = <<>>
    THEN Result(h, Raise("ValueError",
                         Msg("Cannot convert None to StrictTag", <<>>, "")))
    ELSE Result([h EXCEPT ![tag[1]].cls = "StrictTag", ![tag[1]].attrs = {}],
                Return("StrictTag", tag, ""))

\* Variant: returns the tag without reclassifying it.
convert_without_reclassifying(h, tag) ==
    IF tag = <<>>
    THEN Result(h, Raise("ValueError",
                         Msg("Cannot convert None to StrictTag", <<>>, "")))
    ELSE Result(h, Return("Tag", tag, ""))

\* Variant: patches the class itself, so every Tag becomes a StrictTag.
convert_by_patching_Tag(h, tag) ==
    IF tag = <<>>
    THEN Result(h, Raise("ValueError",
                         Msg("Cannot convert None to StrictTag", <<>>, "")))
    ELSE Result([n \in DOMAIN h |->
                    IF h[n].cls = "Tag" THEN [h[n] EXCEPT !.cls = "StrictTag"]
                    ELSE h[n]],
                Return("StrictTag", tag, ""))

\* _convert_to_strict_tag: tag is None (<<>>) or a Tag (<<n>>); reclassifies
\* that one object in place.
convert_to_strict_tag(h, tag) ==
    IF tag = <<>>
    THEN Result(h, Raise("ValueError",
                         Msg("Cannot convert None to StrictTag", <<>>, "")))
    ELSE Result([h EXCEPT ![tag[1]].cls = "StrictTag"],
                Return("StrictTag", tag, ""))

RECURSIVE ConvertAll(_, _, _)

\* [_convert_to_strict_tag(item) for item in output]
ConvertAll(h, items, done) ==
    IF items = <<>> THEN Result(h, Return("ResultSet", done, ""))
    ELSE LET r == convert_to_strict_tag(h, <<Head(items)>>)
         IN IF r.out.kind = "raise" THEN r
            ELSE ConvertAll(r.heap, Tail(items), done \o r.out.nodes)

\* StrictTag.select
StrictTag_select(h, self, selector, limit) ==
    LET output == Tag_select(h, self, selector, limit)
    IN ConvertAll(h, output, <<>>)

\* Variant: converts the engine's answer without the None test.
select_one_without_none_test(h, self, selector) ==
    convert_to_strict_tag(h, Tag_select_one(h, self, selector))

\* StrictTag.select_one
StrictTag_select_one(h, self, selector) ==
    LET output == Tag_select_one(h, self, selector)
    IN IF output # <<>> THEN convert_to_strict_tag(h, output)
       ELSE Result(h, Return("None", <<>>, ""))

\* Variant: no emptiness test.
strict_select_without_test(h, self, selector, limit) ==
    StrictTag_select(h, self, selector, limit)

\* StrictTag.strict_select
strict_select(h, self, selector, limit) ==
    LET r == StrictTag_select(h, self, selector, limit)
    IN IF r.out.kind = "raise" THEN r
       ELSE IF Len(r.out.nodes) = 0
       THEN Result(r.heap,
                   Raise("StrictSelectError",
                         Msg("No matches found for strict_select({selector})",
                             <<>>, selector)))
       ELSE r

\* Variant: the size test inverted.
strict_select_one_inverted(h, self, selector, limit) ==
    LET r == strict_select(h, self, selector, limit)
    IN IF r.out.kind = "raise" THEN r
       ELSE IF Len(r.out.nodes) = 1
       THEN Result(r.heap,
                   Raise("StrictSelectError",
                         Msg("Found {len(output)} matches for strict_select_one({selector})",
                             <<Len(r.out.nodes)>>, selector)))
       ELSE Result(r.heap, Return("StrictTag", <<r.out.nodes[1]>>, ""))

\* Variant: built on select_one, raising only when it answers None.
strict_select_one_via_select_one(h, self, selector, limit) ==
    LET r == StrictTag_select_one(h, self, selector)
    IN IF r.out.kind = "raise" THEN r
       ELSE IF r.out.nodes = <<>>
       THEN Result(r.heap,
                   Raise("StrictSelectError",
                         Msg("Found {len(output)} matches for strict_select_one({selector})",
                             <<0>>, selector)))
       ELSE r

\* Variant: limit is not forwarded to strict_select.
strict_select_one_without_limit(h, self, selector, limit) ==
    LET r == strict_select(h, self, selector, <<>>)
    IN IF r.out.kind = "raise" THEN r
       ELSE IF Len(r.out.nodes) # 1
       THEN Result(r.heap,
                   Raise("StrictSelectError",
                         Msg("Found {len(output)} matches for strict_select_one({selector})",
                             <<Len(r.out.nodes)>>, selector)))
       ELSE Result(r.heap, Return("StrictTag", <<r.out.nodes[1]>>, ""))

\* StrictTag.strict_select_one
strict_select_one(h, self, selector, limit) ==
    LET r == strict_select(h, self, selector, limit)
    IN IF r.out.kind = "raise" THEN r
       ELSE IF Len(r.out.nodes) # 1
       THEN Result(r.heap,
                   Raise("StrictSelectError",
                         Msg("Found {len(output)} matches for strict_select_one({selector})",
                             <<Len(r.out.nodes)>>, selector)))
       ELSE Result(r.heap, Return("StrictTag", <<r.out.nodes[1]>>, ""))

\* Variant: a truthiness test in place of the isinstance test.
strict_get_truthy(h, self, key) ==
    LET output == Tag_get(h, self, key)
    IN IF output.t = "None" \/ output.v = ""
       THEN Result(h, Raise("StrictSelectError",
                            Msg("No matches found for strict_get({key})",
                                <<>>, key)))
       ELSE Result(h, Return("str", <<>>, output.v))

\* StrictTag.strict_get
strict_get(h, self, key) ==
    LET output == Tag_get(h, self, key)
    IN IF output.t # "str"
       THEN Result(h, Raise("StrictSelectError",
                            Msg("No matches found for strict_get({key})",
                                <<>>, key)))
       ELSE Result(h, Return("str", <<>>, output.v))

\* Variant: raises only for an empty argument list, otherwise appends.
insert_when_given(h, self, args) ==
    IF args = <<>>
    THEN Result(h, Raise("NotImplementedError",
                         Msg("This is not implemented, the args of {args} do nothing.",
                             <<>>, "")))
    ELSE Result([h EXCEPT ![self].contents = @ \o args],
                Return("None", <<>>, ""))

\* StrictSoup.insert_after
insert_after(h, self, args) ==
    Result(h, Raise("NotImplementedError",
                    Msg("This is not implemented, the args of {args} do nothing.",
                        <<>>, "")))

\* StrictSoup.insert_before
insert_before(h, self, args) ==
    Result(h, Raise("NotImplementedError",
                    Msg("This is not implemented, the args of {args} do nothing.",
                        <<>>, "")))

(* ---------------- the earlier variant: StrictMixin -------------------- *)

Max(S) == CHOOSE x \in S : \A y \in S : y <= x

\* StrictTag(tag): a new object whose __dict__ is that of tag (name, attrs,
\* contents, parent), of class StrictTag. vars(None) raises TypeError.
StrictTag_init(h, tag) ==
    IF tag = <<>>
    THEN Result(h, Raise("TypeError",
                         Msg("vars() argument must have __dict__ attribute",
                             <<>>, "")))
    ELSE LET new == Max(DOMAIN h) + 1
         IN Result(h @@ (new :> [h[tag[1]] EXCEPT !.cls = "StrictTag"]),
                   Return("StrictTag", <<new>>, ""))

RECURSIVE WrapAll(_, _, _)

\* [StrictTag(item) for item in output]
WrapAll(h, items, done) ==
    IF items = <<>> THEN Result(h, Return("ResultSet", done, ""))
    ELSE LET r == StrictTag_init(h, <<Head(items)>>)
         IN IF r.out.kind = "raise" THEN r
            ELSE WrapAll(r.heap, Tail(items), done \o r.out.nodes)

\* StrictMixin.select
StrictMixin_select(h, self, selector, limit) ==
    LET output == Tag_select(h, self, selector, limit)
    IN WrapAll(h, output, <<>>)

\* StrictMixin.select_one
StrictMixin_select_one(h, self, selector) ==
    LET output == Tag_select_one(h, self, selector)
    IN IF output # <<>> THEN StrictTag_init(h, output)
       ELSE Result(h, Return("None", <<>>, ""))

\* StrictMixin.strict_select
StrictMixin_strict_select(h, self, selector, limit) ==
    LET r == StrictMixin_select(h, self, selector, limit)
    IN IF r.out.kind = "raise" THEN r
       ELSE IF Len(r.out.nodes) = 0
       THEN Result(r.heap,
                   Raise("StrictSelectError",
                         Msg("No matches found for strict_select({selector})",
                             <<>>, selector)))
       ELSE r

\* StrictMixin.strict_select_one
StrictMixin_strict_select_one(h, self, selector, limit) ==
    LET r == StrictMixin_strict_select(h, self, selector, limit)
    IN IF r.out.kind = "raise" THEN r
       ELSE IF Len(r.out.nodes) # 1
       THEN Result(r.heap,
                   Raise("StrictSelectError",
                         Msg("Found {len(output)} matches for strict_select_one({selector})",
                             <<Len(r.out.nodes)>>, selector)))
       ELSE Result(r.heap, Return("StrictTag", <<r.out.nodes[1]>>, ""))

\* StrictMixin.strict_get
StrictMixin_strict_get(h, self, key) ==
    LET output == Tag_get(h, self, key)
    IN IF output.t # "str"
       THEN Result(h, Raise("StrictSelectError",
                            Msg("No matches found for strict_get({key})",
                                <<>>, key)))
       ELSE Result(h, Return("str", <<>>, output.v))

(* ------------------------------- calls -------------------------------- *)

Call(op, recv, selector, limit, key, args, out) ==
    [op |-> op, recv |-> recv, selector |-> selector, limit |-> limit,
     key |-> key, args |-> args, out |-> out]

Range(s) == {s[i] : i \in DOMAIN s}

\* The caller keeps every element a call returns.
Returned(out) == IF out.kind = "return" THEN Range(out.nodes) ELSE {}

Finish(r, call) ==
    /\ calls < MaxCalls
    /\ calls' = calls + 1
    /\ heap' = r.heap
    /\ last' = call
    /\ handles' = handles \cup Returned(r.out)

\* node.select(selector, namespaces, limit): the class of the receiver
\* decides whether the wrapper or the engine's own select runs.
DoSelect(recv, selector, limit) ==
    LET r == IF IsStrict(heap[recv].cls)
             THEN StrictTag_select(heap, recv, selector, limit)
             ELSE Result(heap, Return("ResultSet",
                                      Tag_select(heap, recv, selector, limit), ""))
    IN Finish(r, Call("select", recv, selector, limit, "", <<>>, r.out))

\* node.select_one(selector)
DoSelectOne(recv, selector) ==
    LET native == Tag_select_one(heap, recv, selector)
        r == IF IsStrict(heap[recv].cls)
             THEN StrictTag_select_one(heap, recv, selector)
             ELSE Result(heap, Return(IF native = <<>> THEN "None" ELSE "Tag",
                                      native, ""))
    IN Finish(r, Call("select_one", recv, selector, <<>>, "", <<>>, r.out))

\* node.strict_select(selector, namespaces, limit)
DoStrictSelect(recv, selector, limit) ==
    /\ "strict_select" \in Methods(heap[recv].cls)
    /\ LET r == strict_select(heap, recv, selector, limit)
       IN Finish(r, Call("strict_select", recv, selector, limit, "", <<>>, r.out))

\* node.strict_select_one(selector, namespaces, limit)
DoStrictSelectOne(recv, selector, limit) ==
    /\ "strict_select_one" \in Methods(heap[recv].cls)
    /\ LET r == strict_select_one(heap, recv, selector, limit)
       IN Finish(r, Call("strict_select_one", recv, selector, limit, "", <<>>,
                         r.out))

\* node.strict_get(key)
DoStrictGet(recv, key) ==
    /\ "strict_get" \in Methods(heap[recv].cls)
    /\ LET r == strict_get(heap, recv, key)
       IN Finish(r, Call("strict_get", recv, "", <<>>, key, <<>>, r.out))

\* soup.insert_after(*args) on a StrictSoup document
DoInsertAfter(recv, args) ==
    /\ heap[recv].cls = "StrictSoup"
    /\ LET r == insert_after(heap, recv, args)
       IN Finish(r, Call("insert_after", recv, "", <<>>, "", args, r.out))

\* soup.insert_before(*args) on a StrictSoup document
DoInsertBefore(recv, args) ==
    /\ heap[recv].cls = "StrictSoup"
    /\ LET r == insert_before(heap, recv, args)
       IN Finish(r, Call("insert_before", recv, "", <<>>, "", args, r.out))

\* Argument lists of insert_after / insert_before: elements the caller holds.
ArgLists == UNION {[1..k -> handles] : k \in 0..MaxArgs}

(* --------------------------- specification ---------------------------- *)

\* PARSED_HTML = StrictSoup(markup), PARSED_BS4 = BeautifulSoup(markup)
Init ==
    \E m \in Markups :
        /\ heap = Parse(m, "StrictSoup", 0) @@ Parse(m, "BeautifulSoup", Len(m))
        /\ handles = {1, Len(m) + 1}
        /\ calls = 0
        /\ last = Call("", 1, "", <<>>, "", <<>>, Return("None", <<>>, ""))
        /\ mixin = [heap    |-> Parse(m, "StrictSoup", 0),
                    handles |-> {1},
                    last    |-> Call("", 1, "", <<>>, "", <<>>,
                                     Return("None", <<>>, ""))]

Next ==
    \/ \E recv \in handles, selector \in Selectors, limit \in Limits :
           DoSelect(recv, selector, limit) /\ UNCHANGED mixin
    \/ \E recv \in handles, selector \in Selectors :
           DoSelectOne(recv, selector) /\ UNCHANGED mixin
    \/ \E recv \in handles, selector \in Selectors, limit \in Limits :
           DoStrictSelect(recv, selector, limit) /\ UNCHANGED mixin
    \/ \E recv \in handles, selector \in Selectors, limit \in Limits :
           DoStrictSelectOne(recv, selector, limit) /\ UNCHANGED mixin
    \/ \E recv \in handles, key \in Keys :
           DoStrictGet(recv, key) /\ UNCHANGED mixin
    \/ \E recv \in handles, args \in ArgLists :
           DoInsertAfter(recv, args) /\ UNCHANGED mixin
    \/ \E recv \in handles, args \in ArgLists :
           DoInsertBefore(recv, args) /\ UNCHANGED mixin

Spec == Init /\ [][Next]_vars

TypeOK ==
    /\ handles \subseteq DOMAIN heap
    /\ \A n \in handles : IsTag(heap, n)

(* ------------------- the two variants side by side -------------------- *)

\* The parsed element whose attributes the object b of the earlier variant
\* carries: b itself, or the element StrictTag(tag) copied b from.
Wrapped(b) ==
    LET parsed == DOMAIN Parse(CHOOSE m \in Markups :
                                  Len(m) = Cardinality({n \in DOMAIN heap :
                                                           heap[n].doc = 1}),
                              "StrictSoup", 0)
    IN IF b \in parsed THEN b
       ELSE CHOOSE n \in parsed :
                [mixin.heap[n] EXCEPT !.cls = "StrictTag"] = mixin.heap[b]

MixinFinish(r, call) ==
    mixin' = [heap    |-> r.heap,
              handles |-> mixin.handles \cup Returned(r.out),
              last    |-> call]

AllSelectors == Selectors \cup ScopedSelectors

\* The same select on the same element in both variants.
BothSelect(b, selector, limit) ==
    /\ Wrapped(b) \in handles
    /\ DoSelect(Wrapped(b), selector, limit)
    /\ LET r == StrictMixin_select(mixin.heap, b, selector, limit)
       IN MixinFinish(r, Call("select", b, selector, limit, "", <<>>, r.out))

BothSelectOne(b, selector) ==
    /\ Wrapped(b) \in handles
    /\ DoSelectOne(Wrapped(b), selector)
    /\ LET r == StrictMixin_select_one(mixin.heap, b, selector)
       IN MixinFinish(r, Call("select_one", b, selector, <<>>, "", <<>>, r.out))

BothStrictSelect(b, selector, limit) ==
    /\ Wrapped(b) \in handles
    /\ DoStrictSelect(Wrapped(b), selector, limit)
    /\ LET r == StrictMixin_strict_select(mixin.heap, b, selector, limit)
       IN MixinFinish(r, Call("strict_select", b, selector, limit, "", <<>>,
                              r.out))

BothStrictSelectOne(b, selector, limit) ==
    /\ Wrapped(b) \in handles
    /\ DoStrictSelectOne(Wrapped(b), selector, limit)
    /\ LET r == StrictMixin_strict_select_one(mixin.heap, b, selector, limit)
       IN MixinFinish(r, Call("strict_select_one", b, selector, limit, "", <<>>,
                              r.out))

BothStrictGet(b, key) ==
    /\ Wrapped(b) \in handles
    /\ DoStrictGet(Wrapped(b), key)
    /\ LET r == StrictMixin_strict_get(mixin.heap, b, key)
       IN MixinFinish(r, Call("strict_get", b, "", <<>>, key, <<>>, r.out))

NextVariants ==
    \/ \E b \in mixin.handles, selector \in AllSelectors, limit \in Limits :
           BothSelect(b, selector, limit)
    \/ \E b \in mixin.handles, selector \in AllSelectors :
           BothSelectOne(b, selector)
    \/ \E b \in mixin.handles, selector \in AllSelectors, limit \in Limits :
           BothStrictSelect(b, selector, limit)
    \/ \E b \in mixin.handles, selector \in AllSelectors, limit \in Limits :
           BothStrictSelectOne(b, selector, limit)
    \/ \E b \in mixin.handles, key \in Keys :
           BothStrictGet(b, key)

SpecVariants == Init /\ [][NextVariants]_vars

(* ------------------------------ claims -------------------------------- *)

\* The last call was op, made on an element that has the strict operations.
LastIs(op) == last.op = op /\ calls > 0

\* The true matches of the last call's selector under its receiver.
TrueMatches == AllMatches(heap, last.recv, last.selector)

RaisedStrict == last.out.kind = "raise" /\ last.out.err = "StrictSelectError"

\* C1: strict_select raises StrictSelectError exactly when select with the
\* same arguments returns an empty MatchSet; otherwise it returns the very
\* MatchSet select returns, of size at least 1.
C1_StrictSelectIffSelectEmpty ==
    LastIs("strict_select") =>
        LET sel == StrictTag_select(heap, last.recv, last.selector, last.limit).out
        IN /\ sel.kind = "return"
           /\ (last.out.kind = "raise") <=> (sel.nodes = <<>>)
           /\ last.out.kind = "raise" => RaisedStrict
           /\ last.out.kind = "return" =>
                 /\ last.out.shape = "ResultSet"
                 /\ last.out.nodes = sel.nodes
                 /\ Len(last.out.nodes) >= 1

\* strict_select returned several matches under a limit.
C1_Witness ==
    /\ LastIs("strict_select")
    /\ last.out.kind = "return"
    /\ Len(last.out.nodes) = 2
    /\ last.limit = <<2>>
    /\ Len(TrueMatches) > 2

\* C2: for every value of limit, strict_select_one returns a node only when
\* the selector matches exactly one node under the receiver, and raises
\* StrictSelectError when it matches zero or several.
C2_ReturnsOnlyOnExactlyOneMatch ==
    LastIs("strict_select_one") =>
        /\ (last.out.kind = "return") <=> (Len(TrueMatches) = 1)
        /\ last.out.kind = "raise" => RaisedStrict

\* C3: strict_get(K) returns V exactly when K is present with the plain
\* string V (the empty string included), and raises StrictSelectError when K
\* is absent or its value is not a string; it never returns anything but a
\* string.
C3_StrictGetReturnsPresentString ==
    LastIs("strict_get") =>
        LET present == {a \in heap[last.recv].attrs : a.key = last.key}
            strings == {a \in present : a.val.t = "str"}
        IN /\ (last.out.kind = "return") <=> (strings # {})
           /\ last.out.kind = "return" =>
                 /\ last.out.shape = "str"
                 /\ \E a \in strings : a.val.v = last.out.text
           /\ last.out.kind = "raise" =>
                 /\ RaisedStrict
                 /\ present = {} \/ \E a \in present : a.val.t = "list"

\* strict_get returned an attribute whose value is the empty string.
C3_Witness ==
    /\ LastIs("strict_get")
    /\ last.out.kind = "return"
    /\ last.out.text = ""
    /\ \E a \in heap[last.recv].attrs : a.key = last.key /\ a.val = Str("")

\* The elements of the document parsed with StrictSoup.
StrictDoc == {n \in DOMAIN heap : heap[heap[n].doc].cls = "StrictSoup"}

\* The elements of the document parsed with the plain BeautifulSoup.
PlainDoc == {n \in DOMAIN heap : heap[heap[n].doc].cls = "BeautifulSoup"}

Supports(n, ops) == ops \subseteq Methods(heap[n].cls)

\* C4: every node returned by select, select_one, strict_select or
\* strict_select_one, at any point of a chain of calls that starts from a
\* StrictSoup document, supports the five operations, dispatched to the same
\* wrappers as on the document.
C4_AugmentationIsTransitive ==
    /\ \A n \in handles \cap StrictDoc :
           /\ Supports(n, StrictOps \cup {"select", "select_one"})
           /\ IsStrict(heap[n].cls)
    /\ last.recv \in StrictDoc =>
           \A n \in Returned(last.out) : IsStrict(heap[n].cls)

\* A strict operation ran on a node that an earlier call returned.
C4_Witness ==
    /\ LastIs("strict_select_one")
    /\ last.recv \in StrictDoc
    /\ heap[last.recv].cls = "StrictTag"
    /\ last.out.kind = "return"
    /\ calls = 2

\* C5 (state part): no element of the plain document exposes a strict
\* operation.
C5_PlainDocUnaugmented ==
    \A n \in PlainDoc : Methods(heap[n].cls) \cap StrictOps = {}

\* C5 (step part): a call changes only elements of the document its
\* receiver belongs to.
C5_ReclassifyingIsLocal ==
    \A n \in DOMAIN heap :
        heap'[n] # heap[n] => heap[n].doc = heap[last'.recv].doc

C6_SingleMatchEqualsSelectOne ==
    (LastIs("strict_select_one") /\ Len(TrueMatches) = 1) =>
        /\ last.out.kind = "return"
        /\ last.out.nodes = TrueMatches
        /\ last.out.nodes =
               StrictTag_select_one(heap, last.recv, last.selector).out.nodes

\* strict_select_one returned the only match of its selector.
C6_Witness ==
    /\ LastIs("strict_select_one")
    /\ Len(TrueMatches) = 1
    /\ last.out.kind = "return"
    /\ last.out.nodes = TrueMatches

\* C7: when the selector matches n > 1 nodes under the receiver,
\* strict_select_one(S) raises StrictSelectError and the count in the message
\* is n.
C7_MultipleMatchesReportTrueCount ==
    (LastIs("strict_select_one") /\ last.limit = <<>> /\ Len(TrueMatches) > 1) =>
        /\ RaisedStrict
        /\ last.out.msg.count = <<Len(TrueMatches)>>

\* strict_select_one(S) raised on a selector with three matches.
C7_Witness ==
    /\ LastIs("strict_select_one")
    /\ last.limit = <<>>
    /\ Len(TrueMatches) = 3
    /\ RaisedStrict
    /\ last.out.msg.count = <<3>>

\* C8: when the selector has no match under the receiver, select returns an
\* empty MatchSet and select_one returns the absent value, without raising,
\* while strict_select and strict_select_one both raise StrictSelectError.
C8_LooseFormsNeverRaiseOnZero ==
    (last.recv \in StrictDoc /\ calls > 0 /\ last.selector # ""
        /\ TrueMatches = <<>>) =>
        /\ last.op = "select" =>
              /\ last.out.kind = "return"
              /\ last.out.shape = "ResultSet"
              /\ last.out.nodes = <<>>
        /\ last.op = "select_one" =>
              /\ last.out.kind = "return"
              /\ last.out.shape = "None"
              /\ last.out.nodes = <<>>
        /\ last.op \in {"strict_select", "strict_select_one"} => RaisedStrict

\* select_one found nothing under a node of the StrictSoup document.
C8_Witness ==
    /\ LastIs("select_one")
    /\ last.recv \in StrictDoc
    /\ TrueMatches = <<>>
    /\ last.out.shape = "None"

\* C9: on a StrictSoup document insert_after and insert_before raise the
\* unimplemented-operation error for every argument list, the empty one
\* included, and the children of the document (and everything else in the
\* heap) are the same after the call as before it.
C9_InsertRaisesAndInsertsNothing ==
    [][(calls' # calls /\ last'.op \in {"insert_after", "insert_before"}) =>
           /\ last'.out.kind = "raise"
           /\ last'.out.err = "NotImplementedError"
           /\ heap'[last'.recv].contents = heap[last'.recv].contents
           /\ heap' = heap]_vars

\* insert_before was called on the document with an element to insert.
C9_Witness ==
    /\ LastIs("insert_before")
    /\ heap[last.recv].cls = "StrictSoup"
    /\ last.args # <<>>
    /\ last.out.err = "NotImplementedError"

Called(ops) == calls' # calls /\ last'.op \in ops

\* C11: a strict operation that raises StrictSelectError returns no value
\* and leaves the document and its nodes as they were before the call: tag
\* names, children, attributes and which nodes support the strict
\* operations.
C11_StrictFailureIsAtomic ==
    [][(/\ Called(StrictOps)
        /\ last'.out.kind = "raise"
        /\ last'.out.err = "StrictSelectError") =>
           /\ last'.out.shape = ""
           /\ last'.out.nodes = <<>>
           /\ last'.out.text = ""
           /\ heap' = heap]_vars

QueryOps == {"select", "select_one"} \cup StrictOps

\* The call c made (again) in heap h: the class of the receiver picks the
\* method, as in DoSelect .. DoStrictGet.
Repeat(h, c) ==
    CASE c.op = "select" ->
            IF IsStrict(h[c.recv].cls)
            THEN StrictTag_select(h, c.recv, c.selector, c.limit)
            ELSE Result(h, Return("ResultSet",
                                  Tag_select(h, c.recv, c.selector, c.limit), ""))
      [] c.op = "select_one" ->
            IF IsStrict(h[c.recv].cls)
            THEN StrictTag_select_one(h, c.recv, c.selector)
            ELSE LET native == Tag_select_one(h, c.recv, c.selector)
                 IN Result(h, Return(IF native = <<>> THEN "None" ELSE "Tag",
                                     native, ""))
      [] c.op = "strict_select" ->
            strict_select(h, c.recv, c.selector, c.limit)
      [] c.op = "strict_select_one" ->
            strict_select_one(h, c.recv, c.selector, c.limit)
      [] c.op = "strict_get" ->
            strict_get(h, c.recv, c.key)

\* The documents as parsed, before any query: the heap of Init.
Parsed ==
    CHOOSE h0 \in {Parse(m, "StrictSoup", 0) @@ Parse(m, "BeautifulSoup", Len(m)) :
                      m \in Markups} :
        /\ DOMAIN h0 = DOMAIN heap
        /\ \A n \in DOMAIN h0 : h0[n].name = heap[n].name

\* The parsed documents with only the receiver n as the caller holds it.
NeverQueried(n) == [Parsed EXCEPT ![n].cls = heap[n].cls]

MixinMatches ==
    [i \in DOMAIN mixin.last.out.nodes |-> Wrapped(mixin.last.out.nodes[i])]

\* C13: on the same calls the variant that reclassifies matched nodes in
\* place and the variant that wraps them in copying StrictTag objects return
\* the same matches in the same order and the same strings, and raise
\* StrictSelectError on the same calls.
C13_VariantsAreEquivalent ==
    calls > 0 =>
        /\ mixin.last.op = last.op
        /\ mixin.last.out.kind = last.out.kind
        /\ mixin.last.out.err = last.out.err
        /\ mixin.last.out.msg = last.out.msg
        /\ mixin.last.out.text = last.out.text
        /\ MixinMatches = last.out.nodes

\* C13 for selectors that do not name the receiver: the variants agree.
VariantsAgreeOnUnscopedSelectors ==
    (calls > 0 /\ last.selector \notin ScopedSelectors) =>
        C13_VariantsAreEquivalent

====
